---------------------------- MODULE Spec2Model ----------------------------
(***************************************************************************)
(* Generic netlink header codec (src/src/genlhdr.rs): GenlHdr, NlAttrHdr   *)
(* and NlAttrPayload with their Nl implementations (serialize,             *)
(* deserialize, size).  The primitive codecs (u8, u16, Vec<u8>), the       *)
(* alignment helper, the (de)serialization states and the ffi enums live   *)
(* outside genlhdr.rs; they are modelled from the specification.           *)
(*                                                                         *)
(* A run builds a header (GenlHdr::new over NlAttrHdr::new), serializes    *)
(* it, hands the bytes (intact, cut short or with trailing bytes) to a     *)
(* fresh NlDeState, runs GenlHdr::deserialize one loop iteration at a      *)
(* time, and serializes the decoded header again.                          *)
(***************************************************************************)
EXTENDS Integers, Sequences, FiniteSets, TLC

(* ------------------------------ bounds ------------------------------- *)
MaxAttrs == 2
MaxBinLen == 6
MaxKids == 2
MaxKidLen == 1
MaxExplicitLen == 4
MaxTrail == 3
MaxCut == 1

(* --------------------------- program sizes --------------------------- *)
U8Size == 1
U16Size == 2
U16Mod == 65536
Align == 4
NoHint == -1

(* ------------------------- ffi enumerations -------------------------- *)
CmdUnspec == [variant |-> "CmdUnspec", raw |-> 0]
CmdGetops == [variant |-> "CmdGetops", raw |-> 0]
AttrUnspec == [variant |-> "AttrUnspec", raw |-> 0]
AttrFamilyId == [variant |-> "AttrFamilyId", raw |-> 0]

GenlCmds_into(c) ==
  CASE c.variant = "CmdUnspec" -> 0
    [] c.variant = "CmdGetops" -> 3
    [] OTHER -> c.raw

GenlCmds_from(v) ==
  CASE v = 0 -> CmdUnspec
    [] v = 3 -> CmdGetops
    [] OTHER -> [variant |-> "UnrecognizedVariant", raw |-> v]

NlaType_into(t) ==
  CASE t.variant = "AttrUnspec" -> 0
    [] t.variant = "AttrFamilyId" -> 1
    [] OTHER -> t.raw

NlaType_from(v) ==
  CASE v = 0 -> AttrUnspec
    [] v = 1 -> AttrFamilyId
    [] OTHER -> [variant |-> "UnrecognizedVariant", raw |-> v]

(* ------------------------- primitive codecs -------------------------- *)
alignto(n) == n + ((Align - (n % Align)) % Align)

Zeros(n) == [i \in 1..n |-> 0]

u8_serialize(v) == <<v % 256>>

u16_serialize(v) == <<v % 256, (v \div 256) % 256>>

Vec_serialize(v) == v \o Zeros(alignto(Len(v)) - Len(v))

NlDeState_new == [pos |-> 0, hint |-> NoHint]

set_usize(st, sz) == [st EXCEPT !.hint = sz]

u8_deserialize(buf, st) ==
  IF st.pos + U8Size > Len(buf)
  THEN [err |-> "Truncated", val |-> 0, st |-> st]
  ELSE [err |-> "", val |-> buf[st.pos + 1],
        st |-> [st EXCEPT !.pos = st.pos + U8Size]]

u16_deserialize(buf, st) ==
  IF st.pos + U16Size > Len(buf)
  THEN [err |-> "Truncated", val |-> 0, st |-> st]
  ELSE [err |-> "", val |-> buf[st.pos + 1] + 256 * buf[st.pos + 2],
        st |-> [st EXCEPT !.pos = st.pos + U16Size]]

Vec_deserialize(buf, st) ==
  IF st.hint = NoHint
  THEN [err |-> "NoSizeHint", val |-> <<>>, st |-> st]
  ELSE IF Len(buf) - st.pos < st.hint
  THEN [err |-> "Underrun", val |-> <<>>, st |-> st]
  ELSE [err |-> "", val |-> SubSeq(buf, st.pos + 1, st.pos + st.hint),
        st |-> [st EXCEPT !.pos = st.pos + st.hint]]

(* --------------------------- NlAttrPayload --------------------------- *)
Bin(v) == [tag |-> "Bin", bytes |-> v, kids |-> <<>>]

Parsed(p) == [tag |-> "Parsed", bytes |-> <<>>, kids |-> p]

NlAttrPayload_default == Bin(<<>>)

RECURSIVE NlAttrPayload_size(_)
RECURSIVE SumSizes(_)

NlAttrHdr_size(a) == U16Size + U16Size + NlAttrPayload_size(a.payload)

SumSizes(p) ==
  IF p = <<>> THEN 0 ELSE NlAttrHdr_size(Head(p)) + SumSizes(Tail(p))

NlAttrPayload_size(pl) ==
  IF pl.tag = "Bin" THEN Len(pl.bytes) ELSE SumSizes(pl.kids)

NlAttrHdr_asize(a) == alignto(NlAttrHdr_size(a))

RECURSIVE NlAttrHdr_serialize(_)
RECURSIVE NlAttrPayload_serialize(_)
RECURSIVE SerializeEach(_)

SerializeEach(p) ==
  IF p = <<>> THEN <<>>
  ELSE NlAttrHdr_serialize(Head(p)) \o SerializeEach(Tail(p))

\* Mutant: the Bin arm writes the bytes without the padding of Vec<u8>.
NlAttrPayload_serialize_raw(pl) ==
  IF pl.tag = "Bin" THEN pl.bytes ELSE SerializeEach(pl.kids)

NlAttrPayload_serialize(pl) ==
  IF pl.tag = "Bin" THEN Vec_serialize(pl.bytes) ELSE SerializeEach(pl.kids)

NlAttrPayload_deserialize(buf, st) ==
  LET r == Vec_deserialize(buf, st)
  IN  [err |-> r.err, val |-> Bin(r.val), st |-> r.st]

(* ----------------------------- NlAttrHdr ----------------------------- *)
NlAttrHdr_default ==
  [nla_len |-> 0, nla_type |-> AttrUnspec, payload |-> NlAttrPayload_default]

NlAttrHdr_new(nla_len, nla_type, payload) ==
  LET nla == [NlAttrHdr_default EXCEPT !.nla_type = nla_type,
                                       !.payload = payload]
  IN  [nla EXCEPT !.nla_len = IF nla_len = NoHint
                              THEN NlAttrHdr_asize(nla) % U16Mod
                              ELSE nla_len]

NlAttrHdr_serialize(a) ==
  u16_serialize(a.nla_len)
    \o u16_serialize(NlaType_into(a.nla_type))
    \o NlAttrPayload_serialize(a.payload)

\* Mutant: a failed payload read is swallowed and the default payload kept.
NlAttrHdr_deserialize_lenient(buf, st) ==
  LET nla0 == NlAttrHdr_default
      r1 == u16_deserialize(buf, st)
      nla1 == [nla0 EXCEPT !.nla_len = r1.val]
      r2 == u16_deserialize(buf, r1.st)
      nla2 == [nla1 EXCEPT !.nla_type = NlaType_from(r2.val)]
      st3 == set_usize(r2.st, nla2.nla_len)
      r4 == NlAttrPayload_deserialize(buf, st3)
  IN  IF r1.err # ""
      THEN [err |-> r1.err, at |-> "nla_len", nla |-> nla0, st |-> r1.st]
      ELSE IF r2.err # ""
      THEN [err |-> r2.err, at |-> "nla_type", nla |-> nla1, st |-> r2.st]
      ELSE IF r4.err # ""
      THEN [err |-> "", at |-> "end", nla |-> nla2, st |-> r4.st]
      ELSE [err |-> "", at |-> "end",
            nla |-> [nla2 EXCEPT !.payload = r4.val], st |-> r4.st]

\* Mutant: the size hint is set only when the state holds none, so the hint
\* of the first attribute stays in force for the later ones.
NlAttrHdr_deserialize_stale(buf, st) ==
  LET nla0 == NlAttrHdr_default
      r1 == u16_deserialize(buf, st)
      nla1 == [nla0 EXCEPT !.nla_len = r1.val]
      r2 == u16_deserialize(buf, r1.st)
      nla2 == [nla1 EXCEPT !.nla_type = NlaType_from(r2.val)]
      st3 == IF r2.st.hint = NoHint
             THEN set_usize(r2.st, nla2.nla_len)
             ELSE r2.st
      r4 == NlAttrPayload_deserialize(buf, st3)
  IN  IF r1.err # ""
      THEN [err |-> r1.err, at |-> "nla_len", nla |-> nla0, st |-> r1.st]
      ELSE IF r2.err # ""
      THEN [err |-> r2.err, at |-> "nla_type", nla |-> nla1, st |-> r2.st]
      ELSE IF r4.err # ""
      THEN [err |-> r4.err, at |-> "payload", nla |-> nla2, st |-> r4.st]
      ELSE [err |-> "", at |-> "end",
            nla |-> [nla2 EXCEPT !.payload = r4.val], st |-> r4.st]

\* Mutant: after the payload the cursor is set to the attribute's start plus
\* nla_len, as if nla_len counted the header fields too.
NlAttrHdr_deserialize_seek(buf, st) ==
  LET nla0 == NlAttrHdr_default
      r1 == u16_deserialize(buf, st)
      nla1 == [nla0 EXCEPT !.nla_len = r1.val]
      r2 == u16_deserialize(buf, r1.st)
      nla2 == [nla1 EXCEPT !.nla_type = NlaType_from(r2.val)]
      st3 == set_usize(r2.st, nla2.nla_len)
      r4 == NlAttrPayload_deserialize(buf, st3)
  IN  IF r1.err # ""
      THEN [err |-> r1.err, at |-> "nla_len", nla |-> nla0, st |-> r1.st]
      ELSE IF r2.err # ""
      THEN [err |-> r2.err, at |-> "nla_type", nla |-> nla1, st |-> r2.st]
      ELSE IF r4.err # ""
      THEN [err |-> r4.err, at |-> "payload", nla |-> nla2, st |-> r4.st]
      ELSE [err |-> "", at |-> "end",
            nla |-> [nla2 EXCEPT !.payload = r4.val],
            st |-> [r4.st EXCEPT !.pos = st.pos + nla2.nla_len]]

NlAttrHdr_deserialize(buf, st) ==
  LET nla0 == NlAttrHdr_default
      r1 == u16_deserialize(buf, st)
      nla1 == [nla0 EXCEPT !.nla_len = r1.val]
      r2 == u16_deserialize(buf, r1.st)
      nla2 == [nla1 EXCEPT !.nla_type = NlaType_from(r2.val)]
      st3 == set_usize(r2.st, nla2.nla_len)
      r4 == NlAttrPayload_deserialize(buf, st3)
  IN  IF r1.err # ""
      THEN [err |-> r1.err, at |-> "nla_len", nla |-> nla0, st |-> r1.st]
      ELSE IF r2.err # ""
      THEN [err |-> r2.err, at |-> "nla_type", nla |-> nla1, st |-> r2.st]
      ELSE IF r4.err # ""
      THEN [err |-> r4.err, at |-> "payload", nla |-> nla2, st |-> r4.st]
      ELSE [err |-> "", at |-> "end",
            nla |-> [nla2 EXCEPT !.payload = r4.val], st |-> r4.st]

(* ------------------------------ GenlHdr ------------------------------ *)
GenlHdr_default ==
  [cmd |-> CmdUnspec, version |-> 0, reserved |-> 0, attrs |-> <<>>]

GenlHdr_new(cmd, version, attrs) ==
  [cmd |-> cmd, version |-> version, reserved |-> 0, attrs |-> attrs]

GenlHdr_serialize(g) ==
  u8_serialize(GenlCmds_into(g.cmd))
    \o u8_serialize(g.version)
    \o u16_serialize(g.reserved)
    \o SerializeEach(g.attrs)

GenlHdr_deserialize_fields(buf, st) ==
  LET g0 == GenlHdr_default
      r1 == u8_deserialize(buf, st)
      r2 == u8_deserialize(buf, r1.st)
      r3 == u16_deserialize(buf, r2.st)
  IN  IF r1.err # "" THEN [err |-> r1.err, genl |-> g0, st |-> r1.st]
      ELSE IF r2.err # "" THEN [err |-> r2.err, genl |-> g0, st |-> r2.st]
      ELSE IF r3.err # "" THEN [err |-> r3.err, genl |-> g0, st |-> r3.st]
      ELSE [err |-> "",
            genl |-> [g0 EXCEPT !.cmd = GenlCmds_from(r1.val),
                                !.version = r2.val,
                                !.reserved = r3.val],
            st |-> r3.st]

GenlHdr_deserialize_more(buf, st) == st.pos < Len(buf)

(* ------------------------------ inputs ------------------------------- *)
SeqsUpTo(S, n) == UNION {[1..k -> S] : k \in 0..n}

SeqsFromTo(S, m, n) == UNION {[1..k -> S] : k \in m..n}

Blob(n) == [i \in 1..n |-> i - 1]

GenlCmdSet == {CmdUnspec, CmdGetops}

NlaTypeSet == {AttrUnspec, AttrFamilyId}

VersionSet == {2}

PlainAttrs ==
  {NlAttrHdr_new(NoHint, t, Bin(Blob(n))) : t \in NlaTypeSet, n \in 0..MaxBinLen}

KidAttrs ==
  {NlAttrHdr_new(NoHint, AttrFamilyId, Bin(Blob(n))) : n \in 0..MaxKidLen}

NestedAttrs ==
  {NlAttrHdr_new(NoHint, t, Parsed(p)) :
     t \in NlaTypeSet, p \in SeqsFromTo(KidAttrs, 1, MaxKids)}

ExplicitAttrs ==
  {NlAttrHdr_new(d, AttrFamilyId, Bin(Blob(n))) :
     d \in 0..MaxExplicitLen, n \in {0, Align}}

DefaultLists == SeqsUpTo(PlainAttrs, MaxAttrs) \cup SeqsFromTo(NestedAttrs, 1, 1)

ExplicitLists == SeqsFromTo(ExplicitAttrs, 1, MaxAttrs)

Inputs(bytes) ==
  {bytes}
    \cup {bytes \o [i \in 1..k |-> 1] : k \in 1..MaxTrail}
    \cup {SubSeq(bytes, 1, Len(bytes) - k) : k \in 1..MaxCut}

(* ------------------------------- state ------------------------------- *)
VARIABLES
  pc,        \* position of the run
  genl_in,   \* the header built by GenlHdr::new
  dflt,      \* TRUE when every attribute was built without an explicit length
  out,       \* bytes written by the first serialize (NlSerState)
  buf,       \* the slice handed to NlDeState::new
  st,        \* NlDeState: cursor position and size hint
  genl,      \* the header under construction in GenlHdr::deserialize
  result,    \* "" while running, "Ok" or the DeError returned
  ret,       \* <<>> or <<h>>: the value GenlHdr::deserialize returned
  hist,      \* one record per NlAttrHdr::deserialize call of the loop
  out2       \* bytes written by serializing the decoded header

vars == <<pc, genl_in, dflt, out, buf, st, genl, result, ret, hist, out2>>

Init ==
  /\ pc = "init"
  /\ genl_in = GenlHdr_default
  /\ dflt = TRUE
  /\ out = <<>>
  /\ buf = <<>>
  /\ st = NlDeState_new
  /\ genl = GenlHdr_default
  /\ result = ""
  /\ ret = <<>>
  /\ hist = <<>>
  /\ out2 = <<>>

New ==
  /\ pc = "init"
  /\ \E cmd \in GenlCmdSet, version \in VersionSet, d \in BOOLEAN :
       \E attrs \in (IF d THEN DefaultLists ELSE ExplicitLists) :
         /\ genl_in' = GenlHdr_new(cmd, version, attrs)
         /\ dflt' = d
  /\ pc' = "built"
  /\ UNCHANGED <<out, buf, st, genl, result, ret, hist, out2>>

Serialize ==
  /\ pc = "built"
  /\ out' = GenlHdr_serialize(genl_in)
  /\ pc' = "serialized"
  /\ UNCHANGED <<genl_in, dflt, buf, st, genl, result, ret, hist, out2>>

NewDeState ==
  /\ pc = "serialized"
  /\ \E b \in Inputs(out) : buf' = b
  /\ st' = NlDeState_new
  /\ pc' = "fields"
  /\ UNCHANGED <<genl_in, dflt, out, genl, result, ret, hist, out2>>

DeFields ==
  /\ pc = "fields"
  /\ LET r == GenlHdr_deserialize_fields(buf, st)
     IN  /\ st' = r.st
         /\ genl' = r.genl
         /\ IF r.err # ""
            THEN /\ pc' = "done"
                 /\ result' = r.err
            ELSE /\ pc' = "loop"
                 /\ result' = ""
  /\ UNCHANGED <<genl_in, dflt, out, buf, ret, hist, out2>>

DeAttr ==
  /\ pc = "loop"
  /\ GenlHdr_deserialize_more(buf, st)
  /\ LET r == NlAttrHdr_deserialize(buf, st)
     IN  /\ st' = r.st
         /\ hist' = Append(hist, [start |-> st.pos, at |-> r.at, err |-> r.err,
                                  nla |-> r.nla, bound |-> r.st.hint,
                                  end |-> r.st.pos])
         /\ IF r.err # ""
            THEN /\ pc' = "done"
                 /\ result' = r.err
                 /\ genl' = genl
            ELSE /\ pc' = "loop"
                 /\ result' = ""
                 /\ genl' = [genl EXCEPT !.attrs = Append(genl.attrs, r.nla)]
  /\ UNCHANGED <<genl_in, dflt, out, buf, ret, out2>>

DeReturn ==
  /\ pc = "loop"
  /\ ~GenlHdr_deserialize_more(buf, st)
  /\ pc' = "done"
  /\ result' = "Ok"
  /\ ret' = <<genl>>
  /\ UNCHANGED <<genl_in, dflt, out, buf, st, genl, hist, out2>>

Reserialize ==
  /\ pc = "done"
  /\ result = "Ok"
  /\ out2' = GenlHdr_serialize(ret[1])
  /\ pc' = "reserialized"
  /\ UNCHANGED <<genl_in, dflt, out, buf, st, genl, result, ret, hist>>

Next ==
  \/ New
  \/ Serialize
  \/ NewDeState
  \/ DeFields
  \/ DeAttr
  \/ DeReturn
  \/ Reserialize

Spec == Init /\ [][Next]_vars

TypeOK ==
  /\ pc \in {"init", "built", "serialized", "fields", "loop", "done", "reserialized"}
  /\ st.pos \in 0..Len(buf)
  /\ result \in {"", "Ok", "Truncated", "Underrun", "NoSizeHint"}
  /\ Len(ret) \in {0, 1}

(* ----------------------- helpers of the claims ------------------------ *)
Started(h) == h.at \in {"payload", "end"}

PaddedUp(n) == CHOOSE m \in n..(n + 3) : m % 4 = 0

U16At(bytes, off) == bytes[off + 1] + 256 * bytes[off + 2]

AllBin(attrs) == \A i \in 1..Len(attrs) : attrs[i].payload.tag = "Bin"

SameFields(a, b) ==
  /\ a.cmd = b.cmd
  /\ a.version = b.version
  /\ a.reserved = b.reserved
  /\ Len(a.attrs) = Len(b.attrs)
  /\ \A i \in 1..Len(b.attrs) :
       /\ i <= Len(a.attrs)
       /\ a.attrs[i].nla_type = b.attrs[i].nla_type
       /\ a.attrs[i].nla_len = b.attrs[i].nla_len

RECURSIVE BinLayout(_, _, _)
BinLayout(bytes, off, attrs) ==
  IF attrs = <<>> THEN Len(bytes) = off
  ELSE LET a == Head(attrs)
           n == Len(a.payload.bytes)
           w == PaddedUp(n)
       IN  /\ Len(bytes) >= off + 4 + w
           /\ U16At(bytes, off) = a.nla_len
           /\ U16At(bytes, off + 2) = NlaType_into(a.nla_type)
           /\ \A i \in 1..n : bytes[off + 4 + i] = a.payload.bytes[i]
           /\ \A i \in (n + 1)..w : bytes[off + 4 + i] = 0
           /\ BinLayout(bytes, off + 4 + w, Tail(attrs))

Written == pc \notin {"init", "built"}

Decoded == pc \in {"done", "reserialized"}

TestHdr ==
  GenlHdr_new(CmdGetops, 2, <<NlAttrHdr_new(NoHint, AttrFamilyId, Bin(Blob(6)))>>)

(* ------------------------------ claims ------------------------------- *)

\* C1: for every header h built with default attribute lengths,
\* deserializing the bytes serialize(h) wrote succeeds and reproduces cmd,
\* version, reserved and the nla_type and nla_len of every attribute, with
\* the same number of attributes in the same order.
C1_RoundTrip ==
  (Decoded /\ dflt /\ buf = out)
    => /\ result = "Ok"
       /\ Len(ret) = 1
       /\ SameFields(ret[1], genl_in)

\* C2: serializing a Bin payload of length n writes the n bytes followed by
\* zero bytes up to the next multiple of 4; a header whose attributes all
\* carry Bin payloads is written as cmd, version, reserved and then, per
\* attribute, nla_len, nla_type, the payload bytes and the zero padding.
C2_BinaryLayout ==
  (Written /\ AllBin(genl_in.attrs))
    => /\ Len(out) >= 4
       /\ out[1] = GenlCmds_into(genl_in.cmd)
       /\ out[2] = genl_in.version
       /\ out[3] = 0
       /\ out[4] = 0
       /\ BinLayout(out, 4, genl_in.attrs)

C2_Witness ==
  /\ pc = "serialized"
  /\ genl_in = TestHdr
  /\ out = <<3, 2, 0, 0, 12, 0, 1, 0, 0, 1, 2, 3, 4, 5, 0, 0>>

\* C3: an attribute whose nla_len is d >= 4, with at least d - 4 bytes left
\* after its 4 header bytes, deserializes to a Bin payload holding exactly
\* the d - 4 bytes that follow its header, and leaves the cursor d bytes
\* past the attribute's start.
C3_DeclaredWindow ==
  \A k \in 1..Len(hist) :
    LET h == hist[k]
        d == h.nla.nla_len
    IN  (Started(h) /\ d >= 4 /\ Len(buf) - (h.start + 4) >= d - 4)
          => /\ h.err = ""
             /\ h.nla.payload.tag = "Bin"
             /\ h.nla.payload.bytes = SubSeq(buf, h.start + 5, h.start + d)
             /\ h.end = h.start + d

\* C4: deserializing the 4 header bytes followed by two well-formed
\* attributes yields both attributes in order and stops at the end of the
\* buffer; one full attribute followed by 1 to 3 stray bytes fails with
\* Truncated and returns no header.
C4_TwoAttrsThenTrailing ==
  /\ (Decoded /\ dflt /\ AllBin(genl_in.attrs) /\ Len(genl_in.attrs) = 2
        /\ buf = out)
       => /\ result = "Ok"
          /\ Len(ret) = 1
          /\ SameFields(ret[1], genl_in)
          /\ st.pos = Len(buf)
  /\ (Decoded /\ dflt /\ AllBin(genl_in.attrs) /\ Len(genl_in.attrs) = 1
        /\ Len(buf) - Len(out) \in 1..3
        /\ SubSeq(buf, 1, Len(out)) = out)
       => /\ result = "Truncated"
          /\ ret = <<>>

C6_LengthMismatch ==
  \A k \in 1..Len(hist) :
    (Started(hist[k]) /\ hist[k].nla.nla_len < 4)
      => hist[k].err = "LengthMismatch"

\* C7: every attribute built without an explicit length, with a Bin or a
\* Parsed payload, has nla_len equal to its aligned size, and serializing
\* it writes exactly nla_len bytes.
C7_DeclaredIsWritten ==
  (pc # "init" /\ dflt)
    => \A i \in 1..Len(genl_in.attrs) :
         LET a == genl_in.attrs[i]
         IN  /\ a.nla_len = NlAttrHdr_asize(a)
             /\ Len(NlAttrHdr_serialize(a)) = a.nla_len

\* C8: for every header h built with default attribute lengths,
\* deserializing serialize(h) succeeds and serializing the decoded header
\* writes as many bytes as serialize(h) did.
C8_LengthStable ==
  /\ (Decoded /\ dflt /\ buf = out) => result = "Ok"
  /\ (pc = "reserialized" /\ dflt /\ buf = out) => Len(out2) = Len(out)

\* C9: in one GenlHdr::deserialize, the size hint in force at each payload
\* read is the nla_len of the attribute being read, never one left by an
\* earlier attribute; the payload holds at most that many bytes and the
\* header fields take 4 bytes whatever hint was left behind.
C9_OwnBound ==
  \A k \in 1..Len(hist) :
    LET h == hist[k]
    IN  Started(h)
          => /\ h.bound = h.nla.nla_len
             /\ h.err = ""
                  => /\ Len(h.nla.payload.bytes) <= h.bound
                     /\ h.end = h.start + 4 + Len(h.nla.payload.bytes)

C9_Witness ==
  /\ Len(hist) >= 2
  /\ hist[1].err = ""
  /\ hist[2].err = ""
  /\ hist[2].bound > hist[1].bound

\* C10: every iteration of the attribute loop either ends the call with an
\* error or moves the cursor strictly forward, within the buffer; the call
\* returns Ok only with the cursor at the end of the buffer.
C10_Progress ==
  [][pc = "loop"
       => \/ /\ pc' = "done"
             /\ result' # ""
             /\ result' = "Ok" => st'.pos = Len(buf)
          \/ /\ pc' = "loop"
             /\ st'.pos > st.pos
             /\ st'.pos <= Len(buf)]_vars

C10_Witness ==
  /\ pc = "done"
  /\ result = "Ok"
  /\ st.pos = Len(buf)
  /\ \E k \in 1..Len(hist) :
       /\ hist[k].nla.nla_len = 0
       /\ hist[k].end = hist[k].start + 4

=============================================================================
